---- MODULE Spec2Model ----
(***************************************************************************)
(* Model of the search endpoint of kaarakin/search-server (src/server.go): *)
(* parseParams, filterData, sortData, paginateData, sendResponse and the   *)
(* SearchServer handler, over Go slices (length, capacity, backing array)  *)
(* and an http.ResponseWriter.                                             *)
(*                                                                         *)
(* Go strings that the code inspects character by character (the query,    *)
(* the names, the biography, the raw numeric parameters) are sequences of  *)
(* one-character strings; strings that are only compared or concatenated   *)
(* (order_field, tokens, messages) are TLA+ strings.                       *)
(***************************************************************************)
EXTENDS Integers, Sequences, FiniteSets, TLC

VARIABLES pc, req, w, stages, params, handed, panicked, call

vars == <<pc, req, w, stages, params, handed, panicked, call>>

(***************************************************************************)
(* Bounds of the model.                                                    *)
(***************************************************************************)
\* Longest record source (number of <row> elements of the data set).
MaxRows == 3
\* Longest record source handed to sortData on its own.
MaxSortRows == 7

(***************************************************************************)
(* Strings.                                                                *)
(***************************************************************************)
\* Byte value of a character, for Go's string comparison (bytewise).
CharCode(c) ==
    CASE c = " " -> 32
      [] c = "+" -> 43
      [] c = "-" -> 45
      [] c = "0" -> 48
      [] c = "1" -> 49
      [] c = "2" -> 50
      [] c = "3" -> 51
      [] c = "4" -> 52
      [] c = "5" -> 53
      [] c = "6" -> 54
      [] c = "7" -> 55
      [] c = "8" -> 56
      [] c = "9" -> 57
      [] c = "A" -> 65
      [] c = "a" -> 97
      [] c = "b" -> 98
      [] c = "m" -> 109
      [] c = "x" -> 120
      [] c = "y" -> 121
      [] c = "z" -> 122

\* Go's s < t on strings: lexicographic on bytes, a proper prefix is smaller.
RECURSIVE StrLess(_, _)
StrLess(s, t) ==
    IF t = <<>> THEN FALSE
    ELSE IF s = <<>> THEN TRUE
    ELSE IF CharCode(Head(s)) < CharCode(Head(t)) THEN TRUE
    ELSE IF CharCode(Head(s)) > CharCode(Head(t)) THEN FALSE
    ELSE StrLess(Tail(s), Tail(t))

\* strings.Contains(s, substr): substr occurs in s at some position.
Contains(s, substr) ==
    \E i \in 0..(Len(s) - Len(substr)) :
        SubSeq(s, i + 1, i + Len(substr)) = substr

\* The Go string a character sequence stands for (used inside messages).
RECURSIVE GoString(_)
GoString(s) == IF s = <<>> THEN "" ELSE Head(s) \o GoString(Tail(s))

(***************************************************************************)
(* strconv.Atoi, as called at server.go:49,54,59.                          *)
(***************************************************************************)
IsDigit(c) == CharCode(c) >= 48 /\ CharCode(c) <= 57

RECURSIVE DigitsValue(_, _)
DigitsValue(s, acc) ==
    IF s = <<>> THEN acc
    ELSE DigitsValue(Tail(s), acc * 10 + (CharCode(Head(s)) - 48))

NoError == [isErr |-> FALSE, msg |-> ""]

\* The *strconv.NumError of a syntax failure; Error() quotes the input.
SyntaxError(s) ==
    [isErr |-> TRUE,
     msg |-> "strconv.Atoi: parsing \"" \o GoString(s) \o "\": invalid syntax"]

\* strconv.Atoi(s): optional sign, then one or more decimal digits; anything
\* else is a syntax error with value 0.  (Inputs are short: no range error.)
Atoi(s) ==
    LET signed == s # <<>> /\ Head(s) \in {"-", "+"}
        digits == IF signed THEN Tail(s) ELSE s
    IN  IF digits = <<>> \/ \E i \in 1..Len(digits) : ~IsDigit(digits[i])
        THEN [val |-> 0, err |-> SyntaxError(s)]
        ELSE [val |-> IF signed /\ Head(s) = "-"
                      THEN 0 - DigitsValue(digits, 0)
                      ELSE DigitsValue(digits, 0),
              err |-> NoError]

(***************************************************************************)
(* Sort directions (constants of the client half of the package).          *)
(***************************************************************************)
OrderByAsc == -1
OrderByAsIs == 0
OrderByDesc == 1

(***************************************************************************)
(* queryDTO.parseParams                                                    *)
(***************************************************************************)
\* The URL query values of a request: q is [query, order_field, order_by,
\* offset, limit]; a missing parameter is the empty string (Values.Get).
\* err is overwritten by each Atoi call: the value returned is the error of
\* the last call, the one that parses limit.
parseParams(q) ==
    LET ob  == Atoi(q.order_by)
        off == Atoi(q.offset)
        lim == Atoi(q.limit)
    IN  [dto |-> [query      |-> q.query,
                  orderField |-> q.order_field,
                  orderBy    |-> IF ob.err.isErr THEN 0 ELSE ob.val,
                  offset     |-> IF off.err.isErr THEN 0 ELSE off.val,
                  limit      |-> IF lim.err.isErr THEN 0 ELSE lim.val],
         err |-> lim.err]

(***************************************************************************)
(* Rows, users and Go slices of users.                                     *)
(***************************************************************************)
\* The zero value of User (what a fresh backing array holds).
ZeroUser == [ID |-> 0, Name |-> <<>>, Age |-> 0, About |-> <<>>, Gender |-> <<>>]

\* A []User: arr is the backing array from the slice's first element on
\* (Len(arr) is cap(s)), len is len(s).
Elems(s) == SubSeq(s.arr, 1, s.len)
Cap(s) == Len(s.arr)

\* make([]User, 0) and []User{}: length 0, capacity 0.
EmptySlice == [arr |-> <<>>, len |-> 0]

\* n zero values.
Zeros(n) == [i \in 1..n |-> ZeroUser]

\* append(s, u): in place while capacity allows; otherwise a new zeroed array
\* of doubled capacity (1 from 0), as the gc runtime grows small slices of
\* 64-byte elements.
Append1(s, u) ==
    IF s.len < Cap(s)
    THEN [arr |-> [s.arr EXCEPT ![s.len + 1] = u], len |-> s.len + 1]
    ELSE LET newcap == IF Cap(s) = 0 THEN 1 ELSE 2 * Cap(s)
         IN  [arr |-> Elems(s) \o <<u>> \o Zeros(newcap - s.len - 1),
              len |-> s.len + 1]

\* Mutant of isRowMatching: the last name is not searched.
isRowMatching_NoLastName(row, query) ==
    \/ Contains(row.FirstName, query)
    \/ Contains(row.About, query)

\* isRowMatching: the query occurs in the first name, the last name or the
\* biography.
isRowMatching(row, query) ==
    \/ Contains(row.FirstName, query)
    \/ Contains(row.LastName, query)
    \/ Contains(row.About, query)

\* The User built from a row at server.go:89-95.
UserOf(row) ==
    [ID     |-> row.ID,
     Name   |-> row.FirstName \o <<" ">> \o row.LastName,
     Age    |-> row.Age,
     About  |-> row.About,
     Gender |-> row.Gender]

\* filterData: one pass over data.Rows, appending the rows kept.
RECURSIVE filterLoop(_, _, _)
filterLoop(rows, query, result) ==
    IF rows = <<>> THEN result
    ELSE IF query # <<>> /\ ~isRowMatching(Head(rows), query)
         THEN filterLoop(Tail(rows), query, result)
         ELSE filterLoop(Tail(rows), query, Append1(result, UserOf(Head(rows))))

filterData(rows, query) == filterLoop(rows, query, EmptySlice)

(***************************************************************************)
(* sortData                                                                *)
(***************************************************************************)
\* Mutant of isLess: the "id" case compares ages.
isLess_IdByAge(orderField, orderBy, a, b) ==
    CASE orderField \in {"", "name"} ->
             StrLess(a.Name, b.Name) /\ orderBy = OrderByAsc
      [] orderField = "id" ->
             a.Age < b.Age /\ orderBy = OrderByAsc
      [] orderField = "age" ->
             a.Age < b.Age /\ orderBy = OrderByAsc

\* The comparator sortData picks for a recognised order field, on elements
\* a = data[i] and b = data[j].
isLess(orderField, orderBy, a, b) ==
    CASE orderField \in {"", "name"} ->
             StrLess(a.Name, b.Name) /\ orderBy = OrderByAsc
      [] orderField = "id" ->
             a.ID < b.ID /\ orderBy = OrderByAsc
      [] orderField = "age" ->
             a.Age < b.Age /\ orderBy = OrderByAsc

\* The injective maps of 1..n onto itself.
Perms(n) == {p \in [1..n -> 1..n] : \A i, j \in 1..n : p[i] = p[j] => i = j}

\* data.Swap(i, j) on the elements e.
swapElems(e, i, j) == [e EXCEPT ![i] = e[j], ![j] = e[i]]

\* The inner loop of the library's insertion sort: the element at j moves
\* down while it is less than the one before it.
RECURSIVE sinkElem(_, _, _, _)
sinkElem(e, j, orderField, orderBy) ==
    IF j > 1 /\ isLess(orderField, orderBy, e[j], e[j - 1])
    THEN sinkElem(swapElems(e, j, j - 1), j - 1, orderField, orderBy)
    ELSE e

\* The library's insertion sort of e from position i on.
RECURSIVE insertionSort(_, _, _, _)
insertionSort(e, i, orderField, orderBy) ==
    IF i > Len(e) THEN e
    ELSE insertionSort(sinkElem(e, i, orderField, orderBy), i + 1,
                       orderField, orderBy)

\* The shell-sort pass with gap 6 that the quicksort-based sort.Slice (Go up
\* to 1.18) runs before its insertion sort.
RECURSIVE shellPass(_, _, _, _)
shellPass(e, i, orderField, orderBy) ==
    IF i > Len(e) THEN e
    ELSE shellPass(IF isLess(orderField, orderBy, e[i], e[i - 6])
                   THEN swapElems(e, i, i - 6) ELSE e,
                   i + 1, orderField, orderBy)

\* sort.Slice(data, isLess) for the comparator of orderField: the elements of
\* data[0:len] are rearranged in place.  Up to 12 elements the result is that
\* of the toolchain's sort: insertion sort (pdqsort, Go 1.19 on), or the gap-6
\* pass followed by insertion sort (Go up to 1.18); either toolchain builds
\* the package.  Beyond 12 elements the result is any arrangement the
\* contract allows: no element less than an earlier one, elements that
\* compare equal in unspecified order ("not guaranteed to be stable").
SortSlice(data, orderField, orderBy) ==
    LET e == Elems(data)
        n == data.len
        placed(r) == [arr |-> [i \in 1..Cap(data) |->
                                 IF i <= n THEN r[i] ELSE data.arr[i]],
                      len |-> n]
    IN  IF n <= 12
        THEN {placed(insertionSort(e, 2, orderField, orderBy)),
              placed(insertionSort(shellPass(e, 7, orderField, orderBy), 2,
                                   orderField, orderBy))}
        ELSE {placed([i \in 1..n |-> e[q[i]]]) :
                q \in {q \in Perms(n) :
                         \A i, j \in 1..n :
                            i < j => ~isLess(orderField, orderBy, e[q[j]], e[q[i]])}}

\* sortData: the set of possible results [data, err]; an unrecognised order
\* field gives (nil, errors.New("OrderField invalid")) without sorting.
sortData(data, orderField, orderBy) ==
    IF orderField \in {"", "name", "id", "age"}
    THEN {[data |-> d, err |-> NoError] :
            d \in SortSlice(data, orderField, orderBy)}
    ELSE {[data |-> EmptySlice, err |-> [isErr |-> TRUE, msg |-> "OrderField invalid"]]}

(***************************************************************************)
(* paginateData                                                            *)
(***************************************************************************)
\* data[offset:] for 0 <= offset <= len: the backing array is shared, the
\* capacity shrinks by offset.
SliceFrom(data, offset) ==
    [arr |-> SubSeq(data.arr, offset + 1, Cap(data)), len |-> data.len - offset]

\* The first if of paginateData.
dropOffset(data, offset) ==
    IF offset > 0
    THEN IF offset < data.len THEN SliceFrom(data, offset) ELSE EmptySlice
    ELSE data

\* paginateData: data[:limit] re-slices up to the capacity (exposing whatever
\* the backing array holds past len) and panics with "slice bounds out of
\* range" when limit exceeds the capacity.
paginateData(data, offset, limit) ==
    LET d == dropOffset(data, offset)
    IN  IF (limit - 1) > 0
        THEN IF limit > Cap(d)
             THEN [panic |-> TRUE, data |-> d]
             ELSE [panic |-> FALSE, data |-> [d EXCEPT !.len = limit]]
        ELSE [panic |-> FALSE, data |-> d]

(***************************************************************************)
(* http.ResponseWriter                                                     *)
(***************************************************************************)
\* code: status sent (0 while the header is unsent); ctype: Content-Type in
\* the header map; sent: Content-Type that went out with the status line;
\* body: the chunks written; log: every call made on the writer.
NewWriter == [code |-> 0, ctype |-> "", sent |-> "", body |-> <<>>, log |-> <<>>]

TextChunk(s) == [kind |-> "text", text |-> s, users |-> <<>>]
UsersChunk(us) == [kind |-> "json", text |-> "", users |-> us]

\* w.Header().Set("Content-Type", v)
SetContentType(rw, v) == [rw EXCEPT !.ctype = v]

\* The header goes out once; a later WriteHeader is ignored.
sendHeader(rw, code) ==
    IF rw.code = 0 THEN [rw EXCEPT !.code = code, !.sent = rw.ctype] ELSE rw

\* w.WriteHeader(code)
WriteHeader(rw, code) ==
    [sendHeader(rw, code) EXCEPT !.log = Append(rw.log, "WriteHeader")]

\* w.Write(chunk): sends a 200 header if none was sent; the chunk reaches the
\* body when the connection accepts it.
Write(rw, chunk, writeOK) ==
    LET h == sendHeader(rw, 200)
    IN  [h EXCEPT !.body = IF writeOK THEN Append(h.body, chunk) ELSE h.body,
                  !.log = Append(h.log, "Write")]

\* http.Error(w, msg, code): text/plain, the status, then the message line.
Error(rw, msg, code, writeOK) ==
    Write(WriteHeader(SetContentType(rw, "text/plain; charset=utf-8"), code),
          TextChunk(msg \o "\n"), writeOK)

\* sendResponse(w, data) for a []User (json.Marshal of it cannot fail).
sendResponse(rw, data, writeOK) ==
    LET w1 == Write(SetContentType(rw, "application/json"),
                    UsersChunk(Elems(data)), writeOK)
    IN  IF writeOK THEN w1 ELSE Error(w1, "cant write json", 500, writeOK)

(***************************************************************************)
(* SearchServer                                                            *)
(***************************************************************************)
\* The token the handler compares against, and the data file it opens.
accessToken == "qwerty12345"
fileName == "dataset.xml"

\* The zero queryDTO (&queryDTO{}).
NoParams == [query |-> <<>>, orderField |-> "", orderBy |-> 0, offset |-> 0, limit |-> 0]

\* What one run of the handler leaves behind.
Outcome(rw, st, dto, h, pan) ==
    [w |-> rw, stages |-> st, params |-> dto, handed |-> h, panicked |-> pan]

\* The message of the failure of a load step (os.Open, io.ReadAll,
\* xml.Unmarshal) of the data file in state file.
loadError(file) ==
    CASE file = "noopen" -> "open " \o fileName \o ": no such file or directory"
      [] file = "noread" -> "read " \o fileName \o ": input/output error"
      [] file = "badxml" -> "XML syntax error on line 1: unexpected EOF"

\* The load steps the handler reaches with the data file in state file.
loadStages(file) ==
    CASE file = "noopen" -> <<"auth", "open">>
      [] file = "noread" -> <<"auth", "open", "read">>
      [] OTHER -> <<"auth", "open", "read", "unmarshal">>

\* server.go:217-220: paginate, then send, unless paginateData panics (the
\* panic unwinds the handler; nothing further is written).
paginateAndSend(rw, st, dto, result, writeOK) ==
    LET pg == paginateData(result, dto.offset, dto.limit)
        st1 == Append(st, "paginate")
    IN  IF pg.panic
        THEN Outcome(rw, st1, dto, result, TRUE)
        ELSE Outcome(sendResponse(rw, pg.data, writeOK), Append(st1, "send"),
                     dto, result, FALSE)

\* Mutant of sortStage: the direction is not tested, the sort always runs.
sortStage_NoAsIsGuard(rw, st, dto, result, writeOK) ==
    {IF sorted.err.isErr
     THEN LET w1 == WriteHeader(SetContentType(rw, "application/json"), 400)
              w2 == Write(w1, TextChunk("{ \"Error\": \"" \o sorted.err.msg \o "\" }"),
                          writeOK)
          IN  Outcome(IF writeOK THEN w2 ELSE Error(w2, "cant write json", 500, writeOK),
                      Append(st, "sort"), dto, EmptySlice, FALSE)
     ELSE paginateAndSend(rw, Append(st, "sort"), dto, sorted.data, writeOK) :
       sorted \in sortData(result, dto.orderField, dto.orderBy)}

\* server.go:200-215: the sort stage and its 400 response.
sortStage(rw, st, dto, result, writeOK) ==
    IF dto.orderBy # OrderByAsIs
    THEN {IF sorted.err.isErr
          THEN LET w1 == WriteHeader(SetContentType(rw, "application/json"), 400)
                   w2 == Write(w1, TextChunk("{ \"Error\": \"" \o sorted.err.msg \o "\" }"),
                               writeOK)
               IN  Outcome(IF writeOK THEN w2 ELSE Error(w2, "cant write json", 500, writeOK),
                           Append(st, "sort"), dto, EmptySlice, FALSE)
          ELSE paginateAndSend(rw, Append(st, "sort"), dto, sorted.data, writeOK) :
            sorted \in sortData(result, dto.orderField, dto.orderBy)}
    ELSE {paginateAndSend(rw, st, dto, result, writeOK)}

\* server.go:191-198: parse the parameters (a failure writes a 500 and the
\* handler carries on: the if has no return), then filter.
parseAndFilter(rw, st, r, rows, writeOK) ==
    LET parsed == parseParams(r.url)
        w1 == IF parsed.err.isErr THEN Error(rw, parsed.err.msg, 500, writeOK) ELSE rw
        result == filterData(rows, parsed.dto.query)
    IN  sortStage(w1, st \o <<"parse", "filter">>, parsed.dto, result, writeOK)

\* Mutant of SearchServer: the 401 branch lacks its return.
SearchServer_AuthNoReturn(r, env) ==
    LET w0 == IF r.token # accessToken
              THEN Error(NewWriter, "Invalid AccessToken", 401, env.writeOK)
              ELSE NewWriter
    IN  IF env.file # "ok"
        THEN {Outcome(Error(w0, loadError(env.file), 500, env.writeOK),
                      loadStages(env.file), NoParams, EmptySlice, FALSE)}
        ELSE parseAndFilter(w0, loadStages(env.file), r, env.rows, env.writeOK)

\* SearchServer(w, r) with the data file in state env.file holding env.rows:
\* the set of possible outcomes.
SearchServer(r, env) ==
    IF r.token # accessToken
    THEN {Outcome(Error(NewWriter, "Invalid AccessToken", 401, env.writeOK),
                  <<"auth">>, NoParams, EmptySlice, FALSE)}
    ELSE IF env.file # "ok"
    THEN {Outcome(Error(NewWriter, loadError(env.file), 500, env.writeOK),
                  loadStages(env.file), NoParams, EmptySlice, FALSE)}
    ELSE parseAndFilter(NewWriter, loadStages(env.file), r, env.rows, env.writeOK)

(***************************************************************************)
(* Inputs.                                                                 *)
(***************************************************************************)
Row(id, first, last, age, about) ==
    [ID |-> id, FirstName |-> first, LastName |-> last, Age |-> age,
     About |-> about, Gender |-> <<"m">>]

\* The rows a data set is drawn from: identifiers are unique; names and ages
\* repeat; one biography holds a space.
RowPool ==
    {Row(0, <<"a">>, <<"b">>, 2, <<"b", "a">>),
     Row(1, <<"b">>, <<"a">>, 1, <<"a", " ", "b">>),
     Row(2, <<"a">>, <<"b">>, 2, <<>>),
     Row(3, <<"a", "b">>, <<"a">>, 1, <<"b">>)}

\* The data sets: up to MaxRows distinct rows in any order.
Stores ==
    UNION {{s \in [1..k -> RowPool] : \A i, j \in 1..k : s[i] = s[j] => i = j} :
             k \in 0..MaxRows}

\* Longer data sets, in identifier order, of rows of two ages (the name
\* follows the age): the inputs on which the sort's passes differ.
LongStores ==
    UNION {{[i \in 1..k |->
               Row(i - 1, IF age[i] = 1 THEN <<"a">> ELSE <<"b">>, <<"a">>,
                   age[i], <<>>)] :
              age \in [1..k -> {1, 2}]} :
             k \in (MaxRows + 1)..MaxSortRows}

Queries ==
    {<<>>, <<"a">>, <<"b">>, <<" ">>, <<"a", "b">>, <<"a", " ", "b">>, <<"A">>}

\* Queries in a request to the handler.
ServeQueries == {<<>>, <<"a">>, <<" ">>, <<"a", " ", "b">>, <<"A">>}

OrderFields == {"", "name", "id", "age", "random"}

Tokens == {accessToken, accessToken \o "invalid"}

\* Raw values of order_by, offset and limit in a request to the handler.
RawOrderBy == {<<"-", "1">>, <<"0">>, <<"1">>, <<>>}
RawOffset == {<<"0">>, <<"1">>, <<"y">>}
RawLimit == {<<"1">>, <<"2">>, <<"4">>, <<"2", "6">>, <<"z">>}

\* Raw values handed to parseParams alone.
RawInts == {<<>>, <<"0">>, <<"+", "1">>, <<"-", "2">>, <<"1", "0">>, <<"-">>,
            <<"x">>, <<"1", "y">>, <<"z", "2">>}

Url(q, f, ob, off, lim) ==
    [query |-> q, order_field |-> f, order_by |-> ob, offset |-> off, limit |-> lim]

\* The states of the data file: readable with some rows, or failing to open,
\* to read or to parse; and whether the connection accepts writes.
Envs ==
    {[file |-> "ok", rows |-> rows, writeOK |-> ok] :
        rows \in Stores, ok \in BOOLEAN}
    \cup {[file |-> f, rows |-> <<>>, writeOK |-> ok] :
            f \in {"noopen", "noread", "badxml"}, ok \in BOOLEAN}

NoReq == [token |-> "", url |-> Url(<<>>, "", <<>>, <<>>, <<>>),
          env |-> [file |-> "ok", rows |-> <<>>, writeOK |-> TRUE]]
NoCall == [fn |-> "", in |-> <<>>, out |-> <<>>]

(***************************************************************************)
(* The state machine.                                                      *)
(***************************************************************************)
Init ==
    /\ pc = "idle"
    /\ req = NoReq
    /\ w = NewWriter
    /\ stages = <<>>
    /\ params = NoParams
    /\ handed = EmptySlice
    /\ panicked = FALSE
    /\ call = NoCall

\* One request served by SearchServer, start to end.
Serve ==
    /\ pc = "idle"
    /\ \E token \in Tokens, q \in ServeQueries, f \in OrderFields, ob \in RawOrderBy,
          off \in RawOffset, lim \in RawLimit, env \in Envs :
         LET r == [token |-> token, url |-> Url(q, f, ob, off, lim)]
         IN  \E o \in SearchServer(r, env) :
               /\ req' = [token |-> token, url |-> r.url, env |-> env]
               /\ w' = o.w
               /\ stages' = o.stages
               /\ params' = o.params
               /\ handed' = o.handed
               /\ panicked' = o.panicked
    /\ call' = [fn |-> "SearchServer", in |-> <<>>, out |-> <<>>]
    /\ pc' = "done"

\* parseParams called on its own (as the package's tests do).
CallParseParams ==
    /\ pc = "idle"
    /\ \E q \in {<<>>, <<"a">>}, f \in {"", "name"}, ob \in RawInts,
          off \in RawInts, lim \in RawInts :
         LET u == Url(q, f, ob, off, lim)
         IN  call' = [fn |-> "parseParams", in |-> u, out |-> parseParams(u)]
    /\ pc' = "done"
    /\ UNCHANGED <<req, w, stages, params, handed, panicked>>

\* filterData called on its own.
CallFilterData ==
    /\ pc = "idle"
    /\ \E rows \in Stores, q \in Queries :
         call' = [fn |-> "filterData", in |-> [rows |-> rows, query |-> q],
                  out |-> filterData(rows, q)]
    /\ pc' = "done"
    /\ UNCHANGED <<req, w, stages, params, handed, panicked>>

\* sortData called on a filtered sequence.
CallSortData ==
    /\ pc = "idle"
    /\ \E rows \in Stores \cup LongStores, q \in Queries, f \in OrderFields,
          ob \in {OrderByAsc, OrderByDesc} :
         LET data == filterData(rows, q)
         IN  \E o \in sortData(data, f, ob) :
               call' = [fn |-> "sortData",
                        in |-> [data |-> data, orderField |-> f, orderBy |-> ob],
                        out |-> o]
    /\ pc' = "done"
    /\ UNCHANGED <<req, w, stages, params, handed, panicked>>

\* paginateData called on a filtered sequence.
CallPaginateData ==
    /\ pc = "idle"
    /\ \E rows \in Stores, q \in Queries, offset \in (0 - 1)..(MaxRows + 1),
          limit \in (0 - 1)..(MaxRows + 2) :
         LET data == filterData(rows, q)
         IN  call' = [fn |-> "paginateData",
                      in |-> [data |-> data, offset |-> offset, limit |-> limit],
                      out |-> paginateData(data, offset, limit)]
    /\ pc' = "done"
    /\ UNCHANGED <<req, w, stages, params, handed, panicked>>

\* The call has returned; the next one starts from fresh request state.
Finish ==
    /\ pc = "done"
    /\ pc' = "idle"
    /\ req' = NoReq
    /\ w' = NewWriter
    /\ stages' = <<>>
    /\ params' = NoParams
    /\ handed' = EmptySlice
    /\ panicked' = FALSE
    /\ call' = NoCall

Next ==
    \/ Serve
    \/ CallParseParams
    \/ CallFilterData
    \/ CallSortData
    \/ CallPaginateData
    \/ Finish

Spec == Init /\ [][Next]_vars

(***************************************************************************)
(* Vocabulary of the properties.                                           *)
(***************************************************************************)
Served == pc = "done" /\ call.fn = "SearchServer"
Authorized == req.token = accessToken
Loaded == req.env.file = "ok"
Called(fn) == pc = "done" /\ call.fn = fn

ValidFields == {"", "name", "id", "age"}

\* The raw parameters of the request that fail to parse, in parsing order.
RawFails(u) ==
    SelectSeq(<<u.order_by, u.offset, u.limit>>, LAMBDA s : Atoi(s).err.isErr)

\* The users of the rows that pass keep, in store order.
UsersWhere(rows, keep(_)) ==
    LET kept == SelectSeq(rows, keep)
    IN  [i \in 1..Len(kept) |-> UserOf(kept[i])]

\* Membership of the claim's filter: empty filter, or a substring of the full
\* name, or of the biography.
MatchesFullName(row, query) ==
    \/ query = <<>>
    \/ Contains(UserOf(row).Name, query)
    \/ Contains(row.About, query)

\* Membership by name parts: empty filter, or a substring of the first name,
\* of the last name, or of the biography.
MatchesParts(row, query) ==
    \/ query = <<>>
    \/ Contains(row.FirstName, query)
    \/ Contains(row.LastName, query)
    \/ Contains(row.About, query)

\* The sort key of a user for an order field, and "k1 after k2 is in order".
KeyInOrder(field, a, b) ==
    CASE field \in {"", "name"} -> ~StrLess(b.Name, a.Name)
      [] field = "id" -> a.ID <= b.ID
      [] field = "age" -> a.Age <= b.Age

KeyEqual(field, a, b) ==
    CASE field \in {"", "name"} -> a.Name = b.Name
      [] field = "id" -> a.ID = b.ID
      [] field = "age" -> a.Age = b.Age

\* s and t hold the same elements the same number of times.
SameElements(s, t) ==
    /\ Len(s) = Len(t)
    /\ \A i \in 1..Len(s) :
         Cardinality({k \in 1..Len(s) : s[k] = s[i]})
           = Cardinality({k \in 1..Len(t) : t[k] = s[i]})

\* Position of the first occurrence of u in s.
IndexOf(s, u) == CHOOSE i \in 1..Len(s) : s[i] = u /\ \A k \in 1..(i - 1) : s[k] # u

\* The chunks of the response body that are record arrays.
JsonChunks == SelectSeq(w.body, LAMBDA c : c.kind = "json")

(***************************************************************************)
(* The claims.                                                             *)
(***************************************************************************)
\* C1: every authorized request with limit > 25 (parameters well formed, the
\* order field recognised, the source loaded, the connection up) is capped to
\* 25 by the handler: it ends with status 200 and one record array of at most
\* 25 records.
C1_LimitCappedTo25 ==
    (/\ Served /\ Authorized /\ Loaded /\ req.env.writeOK
     /\ RawFails(req.url) = <<>>
     /\ params.limit > 25
     /\ (params.orderBy = OrderByAsIs \/ params.orderField \in ValidFields))
    => /\ ~panicked
       /\ w.code = 200
       /\ Len(JsonChunks) = 1
       /\ Len(JsonChunks[1].users) <= 25

\* C2 (as stated): filterData returns exactly the records whose full name or
\* biography contains the filter (all of them for the empty filter), in store
\* order, each once.
C2_FilterByFullName ==
    Called("filterData")
    => Elems(call.out)
         = UsersWhere(call.in.rows, LAMBDA r : MatchesFullName(r, call.in.query))

\* C2 (amended): filterData returns exactly the records for which the filter
\* is empty or a case-sensitive substring of the first name, of the last name
\* or of the biography, in store order, each once; with the empty filter it
\* returns every record.
C2_FilterByNameParts ==
    Called("filterData")
    => /\ Elems(call.out)
            = UsersWhere(call.in.rows, LAMBDA r : MatchesParts(r, call.in.query))
       /\ call.in.query = <<>> => call.out.len = Len(call.in.rows)

\* C2 witness: a filter that keeps one row, drops another, and drops a row
\* whose full name holds the filter across the joining space.
C2_Witness ==
    /\ Called("filterData")
    /\ call.in.query # <<>>
    /\ call.out.len >= 1
    /\ \E i \in 1..Len(call.in.rows) :
         /\ Contains(UserOf(call.in.rows[i]).Name, call.in.query)
         /\ \A k \in 1..call.out.len : call.out.arr[k].ID # call.in.rows[i].ID

\* C3: for a recognised sort field and direction ascending, sortData returns
\* without error a permutation of its input whose key never decreases from an
\* element to the next.
C3_AscendingSorted ==
    (/\ Called("sortData")
     /\ call.in.orderBy = OrderByAsc
     /\ call.in.orderField \in ValidFields)
    => /\ ~call.out.err.isErr
       /\ SameElements(Elems(call.in.data), Elems(call.out.data))
       /\ \A i \in 1..(call.out.data.len - 1) :
            KeyInOrder(call.in.orderField, call.out.data.arr[i],
                       call.out.data.arr[i + 1])

\* C3 witness: an ascending sort by id of three records that were not in id
\* order.
C3_Witness ==
    /\ Called("sortData")
    /\ call.in.orderBy = OrderByAsc
    /\ call.in.orderField = "id"
    /\ call.in.data.len = 3
    /\ call.in.data.arr[1].ID > call.in.data.arr[2].ID
    /\ Elems(call.out.data) # Elems(call.in.data)

\* C4: an authorized request with a direction other than as-is and an
\* unrecognised order_field f gets status 400 and the body
\* { "Error": "OrderFeld f invalid" }.
C4_BadFieldNamed ==
    (/\ Served /\ Authorized /\ Loaded /\ req.env.writeOK
     /\ RawFails(req.url) = <<>>
     /\ params.orderBy # OrderByAsIs
     /\ params.orderField \notin ValidFields)
    => /\ w.code = 400
       /\ w.body = <<TextChunk("{ \"Error\": \"OrderFeld " \o params.orderField
                               \o " invalid\" }")>>

\* C5: paginateData never aborts and returns the input without its first o
\* elements (all of it for o <= 0, nothing for o >= len), cut to its first l
\* elements when l >= 2 (all that remain when fewer do).
C5_PaginateContiguous ==
    Called("paginateData")
    => LET s == Elems(call.in.data)
           o == call.in.offset
           l == call.in.limit
           dropped == IF o <= 0 THEN s
                      ELSE IF o < Len(s) THEN SubSeq(s, o + 1, Len(s)) ELSE <<>>
           cut == IF l >= 2 /\ l < Len(dropped) THEN SubSeq(dropped, 1, l)
                  ELSE dropped
       IN  /\ ~call.out.panic
           /\ Elems(call.out.data) = cut

\* C6: a request whose token differs from the configured one gets 401 and
\* nothing else happens (no load, no parse, no records written); a request
\* with the right token never gets 401.
C6_AuthGate ==
    Served
    => /\ ~Authorized
            => /\ w.code = 401
               /\ stages = <<"auth">>
               /\ params = NoParams
               /\ JsonChunks = <<>>
               /\ w.log = <<"WriteHeader", "Write">>
       /\ Authorized => w.code # 401

\* C6 witness: a wrong token on a request that would otherwise return
\* records.
C6_Witness ==
    /\ Served
    /\ ~Authorized
    /\ Loaded
    /\ Len(req.env.rows) >= 2
    /\ req.url.query = <<>>
    /\ RawFails(req.url) = <<>>

\* C7: parseParams returns the error of the first field (order_by, offset,
\* limit) that fails to parse, nil only when all three parse; failing fields
\* are 0 and the others keep their parsed values.
C7_FirstParseError ==
    Called("parseParams")
    => LET fails == RawFails(call.in)
           dto == call.out.dto
           field(raw, v) == v = Atoi(raw).val
       IN  /\ fails # <<>> => call.out.err = SyntaxError(fails[1])
           /\ fails = <<>> => ~call.out.err.isErr
           /\ field(call.in.order_by, dto.orderBy)
           /\ field(call.in.offset, dto.offset)
           /\ field(call.in.limit, dto.limit)

\* C8: with direction as-is (order_by 0, missing or unparsable) an authorized
\* request never reaches the sort stage: pagination is handed the filter
\* output in store order and no 400 is produced, whatever order_field is.
C8_AsIsSkipsSort ==
    (Served /\ Authorized /\ Loaded /\ params.orderBy = OrderByAsIs)
    => /\ \A i \in 1..Len(stages) : stages[i] # "sort"
       /\ \E i \in 1..Len(stages) : stages[i] = "paginate"
       /\ Elems(handed)
            = UsersWhere(req.env.rows, LAMBDA r : MatchesParts(r, params.query))
       /\ w.code # 400

\* C8 witness: an unparsable order_by with an unrecognised order_field, over
\* rows that are not in name order.
C8_Witness ==
    /\ Served /\ Authorized /\ Loaded
    /\ req.url.order_by = <<>>
    /\ params.orderField = "random"
    /\ handed.len >= 2
    /\ StrLess(handed.arr[2].Name, handed.arr[1].Name)

\* C9: a parameter-parse failure ends the request: parse is the last stage,
\* the error response is the only thing written, no record array follows.
C9_ParseFailureEnds ==
    (/\ Served /\ Authorized /\ Loaded /\ req.env.writeOK
     /\ parseParams(req.url).err.isErr)
    => /\ stages[Len(stages)] = "parse"
       /\ w.log = <<"WriteHeader", "Write">>
       /\ JsonChunks = <<>>

\* C10: the ascending sort is stable: records with equal keys leave sortData
\* in the relative order they had in its input.
C10_SortStable ==
    (/\ Called("sortData")
     /\ call.in.orderBy = OrderByAsc
     /\ call.in.orderField \in ValidFields)
    => LET f == call.in.orderField
           a == Elems(call.in.data)
           b == Elems(call.out.data)
       IN  \A i, j \in 1..Len(b) :
             (i < j /\ KeyEqual(f, b[i], b[j]))
               => IndexOf(a, b[i]) < IndexOf(a, b[j])

====
